---- MODULE Spec2Model ----
(***************************************************************************)
(* pgp-cp: copies a file to its destination if the detached PGP signature  *)
(* that comes with it is valid and trusted.  The model follows main() of   *)
(* pgp-cp.py step by step, one action per statement that touches the       *)
(* filesystem, the engine or the exit status, over a small filesystem.     *)
(***************************************************************************)
EXTENDS Integers, Sequences, FiniteSets, TLC

VARIABLES
    argv,        \* the command line each run was started with
    pc,          \* position of each run in main()
    args,        \* the Namespace parse_args() returned
    exitCode,    \* exit status of a finished run
    outcome,     \* which exit of main() a finished run took
    fs,          \* path -> content of the regular file there, or Absent
    quarExists,  \* whether the quarantine directory exists
    seen,        \* what os.path.exists(quar_dir) returned to each run
    input_data,  \* the result of gpg.verify_file for each run
    log,         \* records the logger handed to its handler, per run
    ops,         \* filesystem operations each run has attempted
    staged,      \* content shutil.copy read from the caller's paths
    keyTrust,    \* trust level the keyring gives the signing key
    homeOk,      \* whether the GnuPG home directory can be used
    fs0,         \* the files before any run
    quar0,       \* whether the quarantine directory existed before any run
    tampers      \* how often the caller has replaced an original file

vars == <<argv, pc, args, exitCode, outcome, fs, quarExists, seen, input_data,
          log, ops, staged, keyTrust, homeOk, fs0, quar0, tampers>>

-----------------------------------------------------------------------------
(* Bounds of the model *)

\* the caller replaces an original file at most this often during a run
MaxTamper == 1

-----------------------------------------------------------------------------
(* The filesystem *)

Procs == {1, 2}

Absent == "absent"
None == "none"

P(d, n) == [dir |-> d, name |-> n]

\* paths the caller may pass as input file and as signature
SrcPaths == {P("A", "x"), P("A", "y"), P("B", "x")}
\* paths the caller may pass as output: files outside the quarantine directory
OutPaths == {P("O", "o1"), P("O", "o2")}
quar_dir == "Q"
QuarPaths == {P(quar_dir, n) : n \in {"x", "y"}}
Paths == SrcPaths \cup OutPaths \cup QuarPaths

\* file contents: two data files and a detached signature made on d1
Data == {"d1", "d2"}
Contents == Data \cup {"s1"}
Signs(s) == IF s = "s1" THEN "d1" ELSE None

TrustLevels == 0 .. 4

-----------------------------------------------------------------------------
(* Command lines.  An option is a sequence: empty when the option is not   *)
(* given, else holding its value.                                          *)

Opt(S) == {<<v>> : v \in S}

\* what -l and -v are combined to
LogOptions == {<< <<>>, FALSE >>, << <<"syslog">>, FALSE >>,
               << <<"none">>, TRUE >>, << <<"stream">>, TRUE >>}

\* the command lines of a single run that argparse accepts
ValidCmdLines ==
    {[input |-> i, sig |-> s, output |-> <<P("O", "o1")>>, trust |-> t,
      log_dest |-> l[1], verbose |-> l[2]] :
        i \in Opt(SrcPaths), s \in Opt(SrcPaths),
        t \in {<<>>} \cup Opt({2, 3, 4}), l \in LogOptions}

BaseCmdLine ==
    [input |-> <<P("A", "x")>>, sig |-> <<P("A", "y")>>,
     output |-> <<P("O", "o1")>>, trust |-> <<>>, log_dest |-> <<>>,
     verbose |-> FALSE]

\* command lines argparse rejects
InvalidCmdLines ==
    {[BaseCmdLine EXCEPT !.input = <<>>], [BaseCmdLine EXCEPT !.sig = <<>>],
     [BaseCmdLine EXCEPT !.output = <<>>]}
    \cup {[BaseCmdLine EXCEPT !.trust = <<t>>] : t \in {0, 1, 5}}
    \cup {[BaseCmdLine EXCEPT !.log_dest = <<"file">>]}

CmdLines == ValidCmdLines \cup InvalidCmdLines

\* the command lines of two runs that share the quarantine directory and
\* stage an input of the same filename
ConcCmdLines ==
    [n \in Procs |->
        {[BaseCmdLine EXCEPT !.input = <<P(IF n = 1 THEN "A" ELSE "B", "x")>>,
                             !.output = <<P("O", IF n = 1 THEN "o1" ELSE "o2")>>,
                             !.trust = t] : t \in Opt({2, 3})}]

\* parse_args: required options, choices and defaults
ParseOk(c) ==
    /\ Len(c.input) = 1
    /\ Len(c.sig) = 1
    /\ Len(c.output) = 1
    /\ c.trust = <<>> \/ c.trust[1] \in {2, 3, 4}
    /\ c.log_dest = <<>> \/ c.log_dest[1] \in {"stream", "syslog", "none"}

Namespace(c) ==
    [input_path |-> c.input[1], sig_path |-> c.sig[1],
     output_path |-> c.output[1],
     required_trust_level |-> IF c.trust = <<>> THEN 3 ELSE c.trust[1],
     log_dest |-> IF c.log_dest = <<>> THEN "stream" ELSE c.log_dest[1],
     log_verbose |-> c.verbose]

NoPath == P(None, None)
NoArgs ==
    [input_path |-> NoPath, sig_path |-> NoPath, output_path |-> NoPath,
     required_trust_level |-> 0, log_dest |-> None, log_verbose |-> FALSE]

-----------------------------------------------------------------------------
(* The engine and the logger *)

NoResult == [valid |-> FALSE, trust_level |-> -1, data |-> None, set |-> FALSE]

\* gpg.verify_file on the content of the data file and of the signature
\* file: valid when the signature was made on that data; the trust level
\* is the one the keyring gives the signing key
verify_file(data, sig, trust) ==
    IF sig # Absent /\ Signs(sig) = data
    THEN [valid |-> TRUE, trust_level |-> trust, data |-> data, set |-> TRUE]
    ELSE [valid |-> FALSE, trust_level |-> -1, data |-> data, set |-> TRUE]

\* the fields of the verification result a log record carries
Fields(event) ==
    CASE event = "signed_at_by_key" -> {"creation_date", "username", "key_id"}
      [] event = "trust_not_met" -> {"trust_level"}
      [] event = "trust_level" -> {"trust_level"}
      [] OTHER -> {}

\* logger.setLevel: DEBUG when verbose, INFO otherwise
Passes(m, verbose) == m[1] # "debug" \/ verbose

Emit(r, recs) ==
    log' = [log EXCEPT ![r] =
                @ \o SelectSeq(recs, LAMBDA m : Passes(m, args[r].log_verbose))]

\* exit(code)
Exit(r, code, why) ==
    /\ pc' = [pc EXCEPT ![r] = "done"]
    /\ exitCode' = [exitCode EXCEPT ![r] = code]
    /\ outcome' = [outcome EXCEPT ![r] = why]

Goto(r, where) ==
    /\ pc' = [pc EXCEPT ![r] = where]
    /\ UNCHANGED <<exitCode, outcome>>

Did(r, what) == ops' = [ops EXCEPT ![r] = @ \cup what]

\* input_path and sig_path: the paths main() builds inside the quarantine
input_path(r) == P(quar_dir, args[r].input_path.name)
sig_path(r) == P(quar_dir, args[r].sig_path.name)

-----------------------------------------------------------------------------
(* Initial states *)

EmptyFs == [p \in Paths |-> Absent]

\* the files of the caller, what an earlier run left in the quarantine
\* directory, and what is at the output path
InitFs(f, q) ==
    /\ f[P("A", "x")] \in Data
    /\ f[P("A", "y")] = "s1"
    /\ f[P("B", "x")] \in {"s1", "d2"}
    /\ f[P("O", "o1")] \in {Absent, "d2"}
    /\ f[P("O", "o2")] = Absent
    /\ f[P(quar_dir, "x")] \in (IF q THEN {Absent, "d2"} ELSE {Absent})
    /\ f[P(quar_dir, "y")] = Absent

InitRest ==
    /\ args = [r \in Procs |-> NoArgs]
    /\ exitCode = [r \in Procs |-> -1]
    /\ outcome = [r \in Procs |-> None]
    /\ seen = [r \in Procs |-> FALSE]
    /\ input_data = [r \in Procs |-> NoResult]
    /\ log = [r \in Procs |-> <<>>]
    /\ ops = [r \in Procs |-> {}]
    /\ staged = [r \in Procs |-> [input |-> None, sig |-> None]]
    /\ homeOk \in BOOLEAN
    /\ fs0 = fs
    /\ quar0 = quarExists
    /\ tampers = 0

\* one run
Init ==
    /\ argv \in [Procs -> CmdLines]
    /\ argv[2] = BaseCmdLine
    /\ pc = [r \in Procs |-> IF r = 1 THEN "import" ELSE "off"]
    /\ quarExists \in BOOLEAN
    /\ fs \in [Paths -> Contents \cup {Absent}]
    /\ InitFs(fs, quarExists)
    /\ keyTrust \in TrustLevels
    /\ InitRest

\* two runs started together on the same quarantine directory
InitConc ==
    /\ argv \in [Procs -> UNION {ConcCmdLines[n] : n \in Procs}]
    /\ \A n \in Procs : argv[n] \in ConcCmdLines[n]
    /\ pc = [r \in Procs |-> "import"]
    /\ quarExists \in BOOLEAN
    /\ fs = [EmptyFs EXCEPT ![P("A", "x")] = "d1", ![P("A", "y")] = "s1",
                            ![P("B", "x")] = "d2"]
    /\ keyTrust \in {2, 3}
    /\ InitRest

-----------------------------------------------------------------------------
(* The steps of main() *)

\* the import block at the head of the file
Import(r) ==
    /\ pc[r] = "import"
    /\ \/ Exit(r, 3, "no_dependency")
       \/ Goto(r, "parse")
    /\ UNCHANGED <<argv, args, fs, quarExists, seen, input_data, log, ops,
                   staged, keyTrust, homeOk, fs0, quar0, tampers>>

\* args = parse_args(); argparse ends the program with status 2 on a
\* command line it rejects
ParseArgs(r) ==
    /\ pc[r] = "parse"
    /\ IF ParseOk(argv[r])
       THEN /\ args' = [args EXCEPT ![r] = Namespace(argv[r])]
            /\ Goto(r, "log_init")
       ELSE /\ Exit(r, 2, "usage")
            /\ UNCHANGED args
    /\ UNCHANGED <<argv, fs, quarExists, seen, input_data, log, ops, staged,
                   keyTrust, homeOk, fs0, quar0, tampers>>

\* log_init(args.log_dest, args.log_verbose) and the first debug record;
\* building the syslog handler can raise, which nothing catches
LogInit(r) ==
    /\ pc[r] = "log_init"
    /\ \/ /\ args[r].log_dest = "syslog"
          /\ Exit(r, 1, "crash")
          /\ UNCHANGED log
       \/ /\ Emit(r, << <<"debug", "started">> >>)
          /\ Goto(r, "gpg")
    /\ UNCHANGED <<argv, args, fs, quarExists, seen, input_data, ops, staged,
                   keyTrust, homeOk, fs0, quar0, tampers>>

\* the failure is logged but the run goes on
GpgInit_Ignored(r) ==
    /\ pc[r] = "gpg"
    /\ IF ~homeOk
       THEN Emit(r, << <<"debug", "creating_gpg">>,
                       <<"error", "gpg_init_failed">> >>)
       ELSE Emit(r, << <<"debug", "creating_gpg">> >>)
    /\ Goto(r, "exists")
    /\ UNCHANGED <<argv, args, fs, quarExists, seen, input_data, ops, staged,
                   keyTrust, homeOk, fs0, quar0, tampers>>

\* gpg = gnupg.GPG(homedir=args.gpg_home)
GpgInit(r) ==
    /\ pc[r] = "gpg"
    /\ IF ~homeOk
       THEN /\ Emit(r, << <<"debug", "creating_gpg">>,
                          <<"error", "gpg_init_failed">> >>)
            /\ Exit(r, 1, "gpg_init_failed")
       ELSE /\ Emit(r, << <<"debug", "creating_gpg">> >>)
            /\ Goto(r, "exists")
    /\ UNCHANGED <<argv, args, fs, quarExists, seen, input_data, ops, staged,
                   keyTrust, homeOk, fs0, quar0, tampers>>

\* if not os.path.exists(quar_dir)
QuarExists(r) ==
    /\ pc[r] = "exists"
    /\ seen' = [seen EXCEPT ![r] = quarExists]
    /\ Emit(r, << <<"debug", "setting_up_quar">> >>)
    /\ Goto(r, IF quarExists THEN "copy_input" ELSE "mkdir")
    /\ UNCHANGED <<argv, args, fs, quarExists, input_data, ops, staged,
                   keyTrust, homeOk, fs0, quar0, tampers>>

\* the except clause of the staging block
QuarFailed(r, recs) ==
    /\ Emit(r, recs \o << <<"error", "quarantine_failed">> >>)
    /\ Exit(r, 1, "quarantine_failed")

\* os.mkdir(quar_dir)
Mkdir(r) ==
    /\ pc[r] = "mkdir"
    /\ Did(r, {<<"mkdir", P(quar_dir, "")>>})
    /\ \/ /\ QuarFailed(r, << <<"info", "creating_quar">> >>)
          /\ UNCHANGED quarExists
       \/ /\ ~quarExists
          /\ quarExists' = TRUE
          /\ Emit(r, << <<"info", "creating_quar">> >>)
          /\ Goto(r, "copy_input")
    /\ UNCHANGED <<argv, args, fs, seen, input_data, staged, keyTrust, homeOk,
                   fs0, quar0, tampers>>

\* one fixed name in place of the name of the source
CopyTarget_Fixed(src) == P(quar_dir, "x")

\* shutil.copy(src, quar_dir): the file lands in the directory under the
\* name it has
CopyTarget(src) == P(quar_dir, src.name)

\* shutil.copy(args.input_path, quar_dir)
CopyInput(r) ==
    /\ pc[r] = "copy_input"
    /\ Did(r, {<<"copy_src", args[r].input_path>>,
               <<"copy_dst", CopyTarget(args[r].input_path)>>})
    /\ \/ /\ QuarFailed(r, << <<"info", "copying">> >>)
          /\ UNCHANGED <<fs, staged>>
       \/ /\ fs[args[r].input_path] # Absent
          /\ fs' = [fs EXCEPT ![CopyTarget(args[r].input_path)] =
                                  fs[args[r].input_path]]
          /\ staged' = [staged EXCEPT ![r].input = fs[args[r].input_path]]
          /\ Emit(r, << <<"info", "copying">> >>)
          /\ Goto(r, "copy_sig")
    /\ UNCHANGED <<argv, args, quarExists, seen, input_data, keyTrust, homeOk,
                   fs0, quar0, tampers>>

\* shutil.copy(args.sig_path, quar_dir), then the two paths are built
CopySig(r) ==
    /\ pc[r] = "copy_sig"
    /\ Did(r, {<<"copy_src", args[r].sig_path>>,
               <<"copy_dst", CopyTarget(args[r].sig_path)>>})
    /\ \/ /\ QuarFailed(r, <<>>)
          /\ UNCHANGED <<fs, staged>>
       \/ /\ fs[args[r].sig_path] # Absent
          /\ fs' = [fs EXCEPT ![CopyTarget(args[r].sig_path)] =
                                  fs[args[r].sig_path]]
          /\ staged' = [staged EXCEPT ![r].sig = fs[args[r].sig_path]]
          /\ Emit(r, << <<"debug", "building_paths">> >>)
          /\ Goto(r, "verify")
    /\ UNCHANGED <<argv, args, quarExists, seen, input_data, keyTrust, homeOk,
                   fs0, quar0, tampers>>

\* the caller's paths in place of the staged ones
VerifyReads_Original(r) ==
    [data |-> args[r].input_path, sig |-> args[r].sig_path]

\* the files the verification call opens
VerifyReads(r) == [data |-> input_path(r), sig |-> sig_path(r)]

\* input_data = gpg.verify_file(open(input_path), sig_file=sig_path)
Verify(r) ==
    /\ pc[r] = "verify"
    /\ Did(r, {<<"open", VerifyReads(r).data>>,
               <<"sig_file", VerifyReads(r).sig>>})
    /\ \/ /\ Emit(r, << <<"info", "loading">>, <<"error", "open_failed">> >>)
          /\ Exit(r, 1, "verify_failed")
          /\ UNCHANGED input_data
       \/ /\ fs[VerifyReads(r).data] # Absent
          /\ input_data' = [input_data EXCEPT ![r] =
                 verify_file(fs[VerifyReads(r).data], fs[VerifyReads(r).sig],
                             keyTrust)]
          /\ Emit(r, << <<"info", "loading">> >>)
          /\ Goto(r, "gate")
    /\ UNCHANGED <<argv, args, fs, quarExists, seen, staged, keyTrust, homeOk,
                   fs0, quar0, tampers>>

\* the validity check left out
NotValid_Skipped(r) == FALSE

\* if not input_data.valid
NotValid(r) == ~input_data[r].valid

\* <= in place of <
TrustTooLow_Strict(r) ==
    input_data[r].trust_level <= args[r].required_trust_level

\* if input_data.trust_level < args.required_trust_level
TrustTooLow(r) == input_data[r].trust_level < args[r].required_trust_level

\* logger.debug in place of logger.info
SignedRecord_Debug == <<"debug", "signed_at_by_key">>

\* the record of when, by whom and with which key the file was signed
SignedRecord == <<"info", "signed_at_by_key">>

\* the validity check, the record of the signature and the trust check
Gate(r) ==
    /\ pc[r] = "gate"
    /\ IF NotValid(r)
       THEN /\ Emit(r, << <<"info", "verifying">>, <<"error", "not_valid">> >>)
            /\ Exit(r, 1, "invalid")
       ELSE IF TrustTooLow(r)
       THEN /\ Emit(r, << <<"info", "verifying">>, SignedRecord,
                          <<"error", "trust_not_met">> >>)
            /\ Exit(r, 2, "untrusted")
       ELSE /\ Emit(r, << <<"info", "verifying">>, SignedRecord,
                          <<"debug", "trust_level">> >>)
            /\ Goto(r, "move")
    /\ UNCHANGED <<argv, args, fs, quarExists, seen, input_data, ops, staged,
                   keyTrust, homeOk, fs0, quar0, tampers>>

\* the except clause of the finalizer
FinalFailed(r, recs) ==
    /\ Emit(r, recs \o << <<"error", "create_failed">> >>)
    /\ Exit(r, 1, "final_failed")

\* the caller's path in place of the staged one
MoveSource_Original(r) == args[r].input_path

\* the file the finalizer promotes
MoveSource(r) == input_path(r)

\* shutil.move(input_path, args.output_path); a failed move may have
\* written the destination before it failed
Move(r) ==
    /\ pc[r] = "move"
    /\ Did(r, {<<"move_src", MoveSource(r)>>,
               <<"move_dst", args[r].output_path>>})
    /\ \/ /\ FinalFailed(r, << <<"info", "moving">> >>)
          /\ \/ UNCHANGED fs
             \/ /\ fs[MoveSource(r)] # Absent
                /\ fs' = [fs EXCEPT ![args[r].output_path] = fs[MoveSource(r)]]
       \/ /\ fs[MoveSource(r)] # Absent
          /\ fs' = [fs EXCEPT ![args[r].output_path] = fs[MoveSource(r)],
                              ![MoveSource(r)] = Absent]
          /\ Emit(r, << <<"info", "moving">> >>)
          /\ Goto(r, "remove")
    /\ UNCHANGED <<argv, args, quarExists, seen, input_data, staged, keyTrust,
                   homeOk, fs0, quar0, tampers>>

\* a failed delete is not treated as an error
Remove_Ignored(r) ==
    /\ pc[r] = "remove"
    /\ Did(r, {<<"remove", sig_path(r)>>})
    /\ \/ UNCHANGED fs
       \/ /\ fs[sig_path(r)] # Absent
          /\ fs' = [fs EXCEPT ![sig_path(r)] = Absent]
    /\ Emit(r, << <<"info", "success">> >>)
    /\ Exit(r, 0, "ok")
    /\ UNCHANGED <<argv, args, quarExists, seen, input_data, staged, keyTrust,
                   homeOk, fs0, quar0, tampers>>

\* os.remove(sig_path), the last record and exit(0)
Remove(r) ==
    /\ pc[r] = "remove"
    /\ Did(r, {<<"remove", sig_path(r)>>})
    /\ \/ /\ FinalFailed(r, <<>>)
          /\ UNCHANGED fs
       \/ /\ fs[sig_path(r)] # Absent
          /\ fs' = [fs EXCEPT ![sig_path(r)] = Absent]
          /\ Emit(r, << <<"info", "success">> >>)
          /\ Exit(r, 0, "ok")
    /\ UNCHANGED <<argv, args, quarExists, seen, input_data, staged, keyTrust,
                   homeOk, fs0, quar0, tampers>>

\* the caller replaces one of the files it passed after the run has staged
\* its input
Tamper(p, c) ==
    /\ tampers < MaxTamper
    /\ \E r \in Procs :
          /\ pc[r] \in {"copy_sig", "verify", "gate", "move", "remove"}
          /\ p \in {args[r].input_path, args[r].sig_path}
    /\ fs[p] # c
    /\ fs' = [fs EXCEPT ![p] = c]
    /\ tampers' = tampers + 1
    /\ UNCHANGED <<argv, pc, args, exitCode, outcome, quarExists, seen,
                   input_data, log, ops, staged, keyTrust, homeOk, fs0,
                   quar0>>

Step(r) ==
    \/ Import(r)
    \/ ParseArgs(r)
    \/ LogInit(r)
    \/ GpgInit(r)
    \/ QuarExists(r)
    \/ Mkdir(r)
    \/ CopyInput(r)
    \/ CopySig(r)
    \/ Verify(r)
    \/ Gate(r)
    \/ Move(r)
    \/ Remove(r)

Next ==
    \/ \E r \in Procs : Step(r)
    \/ \E p \in SrcPaths, c \in Contents : Tamper(p, c)

Spec == Init /\ [][Next]_vars

SpecConc == InitConc /\ [][Next]_vars

-----------------------------------------------------------------------------
(* Vocabulary of the properties *)

Done(r) == pc[r] = "done"

\* the run got a verification result and is past the trust gate
PastGate(r) == input_data[r].set /\ pc[r] \in {"move", "remove", "done"}

Attempted(r, kinds) == \E o \in ops[r] : o[1] \in kinds

\* the run never performed the move and the output path holds what it held
NoOutput(r) ==
    /\ ~Attempted(r, {"move_src", "move_dst"})
    /\ fs[args[r].output_path] = fs0[args[r].output_path]

\* the fields of the verification result found in the log of the run
AuditFields(r) == UNION {Fields(log[r][i][2]) : i \in DOMAIN log[r]}

SignerFields == {"creation_date", "username", "key_id"}

-----------------------------------------------------------------------------
(* C1 *)

-----------------------------------------------------------------------------
(* C2 *)

-----------------------------------------------------------------------------
(* C3 *)

\* C3 as stated: whenever the signature is valid and the trust level
\* suffices, after the run the output file exists with the content of the
\* input and the staged signature is gone.
C3_AsStated ==
    \A r \in Procs :
        (Done(r) /\ input_data[r].valid
           /\ input_data[r].trust_level >= args[r].required_trust_level) =>
            /\ fs[args[r].output_path] # Absent
            /\ fs[args[r].output_path] = staged[r].input
            /\ fs[sig_path(r)] = Absent

\* C3 amended: whenever the signature is valid and the trust level suffices,
\* the run either fails in the finalizer with exit code 1, or exits 0 and
\* then the output file exists with the content the input file had when it
\* was staged and the staged signature is gone.
C3_OutputOnSuccess ==
    \A r \in Procs :
        /\ (Done(r) /\ input_data[r].valid
              /\ input_data[r].trust_level >= args[r].required_trust_level) =>
                \/ exitCode[r] = 1 /\ outcome[r] = "final_failed"
                \/ /\ exitCode[r] = 0
                   /\ fs[args[r].output_path] # Absent
                   /\ fs[args[r].output_path] = staged[r].input
                   /\ fs[sig_path(r)] = Absent
        /\ exitCode[r] = 0 =>
                /\ input_data[r].valid
                /\ input_data[r].trust_level >= args[r].required_trust_level

\* a run ended with exit code 0 and replaced what was at the output path
C3_Witness ==
    \E r \in Procs :
        /\ exitCode[r] = 0
        /\ fs0[args[r].output_path] = "d2"
        /\ fs[args[r].output_path] = "d1"
        /\ input_data[r].trust_level > args[r].required_trust_level

-----------------------------------------------------------------------------
(* C4 *)

\* C4: a run whose command line argument parsing rejects fails before any
\* file I/O and with an exit status that differs from the statuses of the
\* other outcomes, 0, 1, 2 and 3.
C4_UsageStatusDistinct ==
    \A r \in Procs :
        outcome[r] = "usage" =>
            /\ ops[r] = {} /\ fs = fs0 /\ quarExists = quar0
            /\ exitCode[r] \notin {0, 1, 2, 3}

-----------------------------------------------------------------------------
(* C5 *)

\* C5: when the engine cannot be initialized the run has no effect on the
\* filesystem (no directory made, nothing copied, output path untouched),
\* and a run that gets as far as the initialization ends with exit code 1.
C5_EngineFailureNoSideEffects ==
    \A r \in Procs :
        (~homeOk /\ pc[r] # "off") =>
            /\ ops[r] = {} /\ fs = fs0 /\ quarExists = quar0
            /\ (Done(r) /\ outcome[r] \notin {"no_dependency", "usage", "crash"})
                  => (exitCode[r] = 1 /\ outcome[r] = "gpg_init_failed")

\* the engine failed to initialize while the quarantine directory was absent
C5_Witness ==
    \E r \in Procs :
        /\ Done(r) /\ ~homeOk /\ outcome[r] = "gpg_init_failed"
        /\ ~quar0 /\ ~quarExists

-----------------------------------------------------------------------------
(* C6 *)

\* C6 as stated: once staging has completed, the quarantine directory
\* exists and holds the input under the input's filename and the signature
\* under the signature's filename, each with the content of its original,
\* for every pair of paths.
C6_AsStated ==
    \A r \in Procs :
        pc[r] = "verify" =>
            /\ quarExists
            /\ fs[input_path(r)] = staged[r].input
            /\ fs[sig_path(r)] = staged[r].sig

\* C6 amended: the quarantine directory is made if absent and reused if
\* present; once staging has completed it holds the signature under the
\* signature's filename and, when the input's filename differs from the
\* signature's, the input under the input's filename, each with the content
\* read from its original; a failed mkdir or copy ends the run with exit
\* code 1.
C6_Staging ==
    \A r \in Procs :
        /\ pc[r] \in {"copy_input", "copy_sig", "verify"} =>
              /\ quarExists
              /\ Attempted(r, {"mkdir"}) = ~seen[r]
              /\ quar0 => ~Attempted(r, {"mkdir"})
        /\ pc[r] = "verify" =>
              /\ fs[sig_path(r)] = staged[r].sig
              /\ staged[r].sig # None /\ staged[r].input # None
              /\ args[r].input_path.name # args[r].sig_path.name =>
                    fs[input_path(r)] = staged[r].input
        /\ (Done(r) /\ ops[r] # {} /\ ~Attempted(r, {"open"})) =>
              exitCode[r] = 1

\* staging completed in a directory the run made, for two filenames
C6_Witness ==
    \E r \in Procs :
        /\ pc[r] = "verify" /\ ~quar0 /\ quarExists
        /\ args[r].input_path.name # args[r].sig_path.name
        /\ fs[input_path(r)] = "d1" /\ fs[sig_path(r)] = "s1"

-----------------------------------------------------------------------------
(* C7 *)

\* C7 as stated: every run that is past the trust gate with a verification
\* result, whatever the outcome, has logged the signer, the timestamp, the
\* key ID and the trust level.
C7_AsStated ==
    \A r \in Procs :
        (input_data[r].set /\ pc[r] # "gate") =>
            (SignerFields \cup {"trust_level"}) \subseteq AuditFields(r)

\* C7 amended: a run that is past the validity check with a valid signature
\* has logged the signer, the timestamp and the key ID before the trust
\* decision; the trust level is logged when the trust is insufficient and,
\* on a pass, only with verbose logging; a run rejected for an invalid
\* signature has logged none of the four.
C7_Audit ==
    \A r \in Procs :
        (input_data[r].set /\ pc[r] # "gate") =>
            IF ~input_data[r].valid
            THEN AuditFields(r) = {}
            ELSE /\ SignerFields \subseteq AuditFields(r)
                 /\ ("trust_level" \in AuditFields(r)) =
                        (exitCode[r] = 2 \/ args[r].log_verbose)

\* a rejection for insufficient trust, logged without verbose logging
C7_Witness ==
    \E r \in Procs :
        /\ Done(r) /\ exitCode[r] = 2 /\ ~args[r].log_verbose
        /\ AuditFields(r) = SignerFields \cup {"trust_level"}

-----------------------------------------------------------------------------
(* C8 *)

\* C8: verification, move and delete use only paths inside the quarantine
\* directory, the caller's paths being read by the two copies alone; so in
\* a single run that exits 0 the content at the output path is the staged
\* content the engine verified, also when the original was replaced after
\* staging.
C8_OnlyQuarantinePaths ==
    \A r \in Procs :
        /\ \A o \in ops[r] :
              /\ o[1] \in {"open", "sig_file", "move_src", "remove"} =>
                    o[2].dir = quar_dir
              /\ o[2] \in SrcPaths => o[1] = "copy_src"
        /\ exitCode[r] = 0 =>
              /\ fs[args[r].output_path] = input_data[r].data
              /\ input_data[r].data = staged[r].input

\* the original input was replaced after staging and the run exited 0 with
\* the staged content at the output path
C8_Witness ==
    \E r \in Procs :
        /\ exitCode[r] = 0 /\ tampers > 0
        /\ fs[args[r].input_path] # fs[args[r].output_path]
        /\ fs[args[r].output_path] = staged[r].input

-----------------------------------------------------------------------------
(* C9 *)

\* C9: a failure in the finalizer ends the run with exit code 1: after a
\* failed move the delete is not attempted; after a move that succeeded and
\* a delete that failed the staged signature is still there; exit code 0
\* means both succeeded.
C9_FinalizerFatal ==
    \A r \in Procs :
        /\ (Done(r) /\ Attempted(r, {"move_src"})) =>
              /\ exitCode[r] \in {0, 1}
              /\ fs[input_path(r)] # Absent =>
                    (exitCode[r] = 1 /\ ~Attempted(r, {"remove"}))
              /\ fs[input_path(r)] = Absent =>
                    /\ Attempted(r, {"remove"})
                    /\ fs[args[r].output_path] = staged[r].input
                    /\ (fs[sig_path(r)] # Absent) = (exitCode[r] = 1)
        /\ exitCode[r] = 0 =>
              /\ Attempted(r, {"move_src"}) /\ Attempted(r, {"remove"})
              /\ fs[input_path(r)] = Absent /\ fs[sig_path(r)] = Absent

\* the move succeeded, the delete failed: exit code 1 with the staged
\* signature left in the quarantine directory
C9_Witness ==
    \E r \in Procs :
        /\ Done(r) /\ exitCode[r] = 1 /\ Attempted(r, {"remove"})
        /\ fs[sig_path(r)] = "s1" /\ fs[input_path(r)] = Absent
        /\ fs[args[r].output_path] = "d1"

-----------------------------------------------------------------------------
(* C10 *)

\* C10: with two runs on one quarantine directory, a run that exits 0 with
\* another content at its output path than the one it staged got it from
\* the other run, which copied a file of the same filename over the staged
\* one; such a run exists (C10_Witness).
C10_RaceBySharedFilename ==
    \A r \in Procs :
        (exitCode[r] = 0 /\ fs[args[r].output_path] # staged[r].input) =>
            \E q \in Procs \ {r} :
                /\ <<"copy_dst", input_path(r)>> \in ops[q]
                /\ fs[args[r].output_path] \in {staged[q].input, staged[q].sig}

\* a run verified the file it staged, the other run overwrote it before the
\* move, and the run exited 0 with the other run's file at its output path
C10_Witness ==
    \E r \in Procs :
        /\ exitCode[r] = 0
        /\ input_data[r].data = staged[r].input
        /\ fs[args[r].output_path] # staged[r].input
====
